---------------------------- MODULE Spec2Model ----------------------------
(***************************************************************************)
(* Loan approval: the application evaluation engine (credit score,         *)
(* category limit, interest rate, EMI) and the schema-versioned CSV record *)
(* store (migrate_csv_if_needed, read_all_applications, submit) of         *)
(* src/app.py.                                                             *)
(*                                                                         *)
(* Numbers.  Python floats are modelled by integers:                       *)
(*   - money (income, loan_amount, existing_debt, limits) in whole rupees; *)
(*   - percentages (interest rates, Debt_to_Income), EMI and tenure in     *)
(*     hundredths ("centi"): 6.8 % is 680, 5 years is 500, an EMI of       *)
(*     7882.79 is 788279.  round(x, 2) is rounding to a whole centi.       *)
(*   - debt_to_income, which the code compares unrounded, is the exact     *)
(*     fraction existing_debt * 100 / income, kept as a pair <<num, den>>. *)
(*     On integer rupee amounts the binary64 value (d / i) * 100 falls on  *)
(*     the same side of 20, 35, 45 and 50 as the exact fraction.           *)
(*   - r and (1 + r) ** n of calculate_emi are computed in fixed point,    *)
(*     FIX = 10^6 units per 1; the EMI so obtained is the binary64 one to  *)
(*     about 0.1 %, and agrees with it on what the properties below read:  *)
(*     whether it is zero, and whether (1 + r) ** n - 1 divides by zero.   *)
(*                                                                         *)
(* Text.  A CSV cell or a form value is a record [t, n, s]: numeric text   *)
(* Num(n), other text Str(s) with s the sequence of its pieces (the empty  *)
(* string is Str(<<>>), joining is concatenation), or NoneVal, Python's    *)
(* None (what csv.DictReader gives for a field a short row lacks).         *)
(***************************************************************************)
EXTENDS Integers, Sequences, FiniteSets, TLC

VARIABLES
    store,          \* the file CSV_FILE: [exists, lines], lines[1] the header row
    rows_read,      \* what the last read_all_applications() returned
    raised,         \* the exception the last handler ended with, or "none"
    op,             \* history: the last handler run ("init" before any)
    before,         \* history: the file as it was before that handler ran
    appended,       \* history: the rows submit() has written so far, in order
    applicant,      \* the arguments of the evaluate_application call
    decision_data,  \* what evaluate_application returned for them
    pc,             \* "idle" before and "done" after the call of a pure function
    rate_args,      \* the arguments [loan_type, credit_score] of base_interest_rate
    rate_ret        \* what base_interest_rate returned for them

vars == <<store, rows_read, raised, op, before, appended,
          applicant, decision_data, pc, rate_args, rate_ret>>

---------------------------------------------------------------------------
(* Values *)

Num(n) == [t |-> "num", n |-> n, s |-> <<>>]
Str(s) == [t |-> "str", n |-> 0, s |-> s]
NoneVal == [t |-> "none", n |-> 0, s |-> <<>>]

IsNum(c) == c.t = "num"

\* Python truthiness of a form or cell value: None and "" are falsy, any other
\* text (also "0") is truthy.
Truthy(c) == ~(c.t = "none" \/ (c.t = "str" /\ c.s = <<>>))

\* x or y
Or(c, d) == IF Truthy(c) THEN c ELSE d

Centi(x) == x * 100

Max(a, b) == IF a >= b THEN a ELSE b

\* int(a / b): truncation toward zero, b > 0
Trunc(a, b) == IF a >= 0 THEN a \div b ELSE -((-a) \div b)

\* a / b rounded to the nearest integer, ties to even (round()), a >= 0, b > 0
RoundDiv(a, b) ==
    LET q == a \div b
        rem == a % b
    IN  IF 2 * rem > b \/ (2 * rem = b /\ q % 2 = 1) THEN q + 1 ELSE q

\* floor(a * b / c) without the intermediate product a * b, c > 0
MulDiv(a, b, c) == (a \div c) * b + ((a % c) * b) \div c

\* result of a call that may raise
Ok(v) == [raised |-> "none", value |-> v]
Raise(e) == [raised |-> e, value |-> 0]

---------------------------------------------------------------------------
(* Configuration *)

LOAN_LIMITS ==
    [Home |-> 5000000, Personal |-> 500000, Car |-> 2000000,
     Education |-> 2000000, Business |-> 3000000]

DEFAULT_TENURE_YEARS == 5

\* fixed-point unit of r and (1 + r) ** n: 10^6 units per 1
FIX == 1000 * 1000

---------------------------------------------------------------------------
(* calculate_emi *)

\* a * b in fixed point, floor(a * b / FIX), by halves of three digits so that
\* no intermediate product leaves 32 bits; b >= 0
MulFix(a, b) ==
    LET a1 == a \div 1000
        a0 == a % 1000
        b1 == b \div 1000
        b0 == b % 1000
    IN  a1 * b1 + (a1 * b0 + a0 * b1 + (a0 * b0) \div 1000) \div 1000

RECURSIVE Pow(_, _)
\* b ** n in fixed point, n >= 0, by repeated squaring
Pow(b, n) ==
    IF n = 0 THEN FIX
    ELSE LET half == Pow(b, n \div 2)
             square == MulFix(half, half)
         IN  IF n % 2 = 0 THEN square ELSE MulFix(b, square)

\* principal in rupees, annual_rate in centi-percent, tenure_years in
\* centi-years, each a value; the EMI in centi-rupees, or the exception raised
calculate_emi(principal, annual_rate, tenure_years) ==
    IF ~(IsNum(principal) /\ IsNum(annual_rate) /\ IsNum(tenure_years))
    THEN Ok(0)                                   \* except (TypeError, ValueError)
    ELSE LET n == Trunc(tenure_years.n * 12, 100) IN
         IF n <= 0 THEN Ok(0)
         ELSE IF annual_rate.n = 0               \* r == 0
         THEN Ok(RoundDiv(principal.n * 100, n))
         ELSE LET r == (annual_rate.n * 25) \div 3     \* annual_rate / (12 * 100)
                  pw == Pow(FIX + r, n)                \* (1 + r) ** n
              IN  IF pw - FIX = 0
                  THEN Raise("ZeroDivisionError")
                  ELSE LET interest == MulDiv(principal.n, r, 10000)   \* principal * r
                           ratio == (pw * 1000) \div (pw - FIX)        \* in thousandths
                       IN  Ok(MulDiv(interest, ratio, 1000))

---------------------------------------------------------------------------
(* base_interest_rate *)

base_rates ==
    [Home |-> 520, Personal |-> 750, Car |-> 700, Education |-> 480, Business |-> 850]

\* the if/elif ladder of base_interest_rate
score_adjustment(credit_score) ==
    IF credit_score >= 780 THEN -70
    ELSE IF credit_score >= 730 THEN -40
    ELSE IF credit_score >= 680 THEN -10
    ELSE IF credit_score < 600 THEN 100
    ELSE 0

base_interest_rate_no_floor(loan_type, credit_score) ==
    LET rate == IF loan_type \in DOMAIN base_rates THEN base_rates[loan_type] ELSE 1000
    IN  rate + score_adjustment(credit_score)

base_interest_rate(loan_type, credit_score) ==
    LET rate == IF loan_type \in DOMAIN base_rates THEN base_rates[loan_type] ELSE 1000
    IN  Max(rate + score_adjustment(credit_score), 500)

---------------------------------------------------------------------------
(* evaluate_application *)

\* emp_lower = employment.lower(), for the employment texts of the model
Lower(text) ==
    CASE text = "Salaried" -> "salaried"
      [] text = "Bank Employee" -> "bank employee"
      [] text = "Self-employed" -> "self-employed"
      [] text = "Unemployed" -> "unemployed"
      [] OTHER -> text

\* needle in text (Python's substring test), for the lowered employment texts
In(needle, text) ==
    <<needle, text>> \in
        {<<"salaried", "salaried">>, <<"employee", "bank employee">>,
         <<"self", "self-employed">>, <<"unemployed", "unemployed">>}

\* (existing_debt / income) * 100 if income > 0 else 0, as a fraction
debt_to_income(existing_debt, income) ==
    IF income > 0 THEN <<existing_debt * 100, income>> ELSE <<0, 1>>

Lt(q, k) == q[1] < k * q[2]
Le(q, k) == q[1] <= k * q[2]

\* round(debt_to_income, 2), in centi-percent
RoundedDti(q) == RoundDiv(q[1] * 100, q[2])

exceeds_limit(loan_type, loan_amount) ==
    loan_type \in DOMAIN LOAN_LIMITS /\ loan_amount > LOAN_LIMITS[loan_type]

dti_factor(dti) ==
    IF Lt(dti, 20) THEN [points |-> 80, remark |-> <<"Excellent debt-to-income ratio.">>]
    ELSE IF Lt(dti, 35) THEN [points |-> 40, remark |-> <<"Good debt-to-income ratio.">>]
    ELSE IF Lt(dti, 50) THEN [points |-> 10, remark |-> <<"Moderate debt-to-income ratio.">>]
    ELSE [points |-> -60, remark |-> <<"High debt-to-income ratio.">>]

employment_factor(employment) ==
    LET emp_lower == Lower(employment) IN
    IF In("salaried", emp_lower) \/ In("employee", emp_lower)
    THEN [points |-> 30, remark |-> <<"Stable salaried employment.">>]
    ELSE IF In("self", emp_lower)
    THEN [points |-> 10, remark |-> <<"Self-employed.">>]
    ELSE IF In("unemployed", emp_lower)
    THEN [points |-> -40, remark |-> <<"Currently unemployed.">>]
    ELSE [points |-> 0, remark |-> <<>>]

loan_to_income_factor(loan_amount, income) ==
    IF loan_amount <= income * 5
    THEN [points |-> 20, remark |-> <<"Requested amount is reasonable compared to income.">>]
    ELSE IF loan_amount > income * 10
    THEN [points |-> -30, remark |-> <<"Requested amount is high compared to income.">>]
    ELSE [points |-> 0, remark |-> <<>>]

age_factor(age) ==
    IF 25 <= age /\ age <= 55 THEN [points |-> 10, remark |-> <<>>]
    ELSE IF age < 21
    THEN [points |-> -20, remark |-> <<"Very young age - limited credit history.">>]
    ELSE IF age > 60 THEN [points |-> -15, remark |-> <<"Near retirement age.">>]
    ELSE [points |-> 0, remark |-> <<>>]

final_decision_exclusive(exceeded_limit, credit_score, dti) ==
    IF exceeded_limit
    THEN [decision |-> "Rejected", remark |-> <<"Application rejected due to category limit.">>]
    ELSE IF credit_score > 700 /\ Lt(dti, 45)
    THEN [decision |-> "Approved", remark |-> <<"Credit score and DTI within acceptable range.">>]
    ELSE [decision |-> "Rejected", remark |-> <<"Score or DTI outside acceptable range.">>]

\* the final decision rules
final_decision(exceeded_limit, credit_score, dti) ==
    IF exceeded_limit
    THEN [decision |-> "Rejected", remark |-> <<"Application rejected due to category limit.">>]
    ELSE IF credit_score >= 700 /\ Le(dti, 45)
    THEN [decision |-> "Approved", remark |-> <<"Credit score and DTI within acceptable range.">>]
    ELSE [decision |-> "Rejected", remark |-> <<"Score or DTI outside acceptable range.">>]

pricing_emi_always(decision, loan_amount, interest_rate, tenure_years) ==
    calculate_emi(Num(loan_amount), Num(interest_rate), tenure_years)

\* emi = calculate_emi(...) if decision == "Approved" else 0.0
pricing_emi(decision, loan_amount, interest_rate, tenure_years) ==
    IF decision = "Approved"
    THEN calculate_emi(Num(loan_amount), Num(interest_rate), tenure_years)
    ELSE Ok(0)

\* a: [name, age, income, loan_amount, loan_type, employment, existing_debt,
\* tenure_years], the numeric fields already numbers (int(), float() succeeded),
\* tenure_years the value the caller passed.  The result: the exception raised and
\* the dictionary returned.
evaluate_application(a) ==
    LET tenure_years == IF Truthy(a.tenure_years) THEN a.tenure_years
                        ELSE Num(Centi(DEFAULT_TENURE_YEARS))
        exceeded_limit == exceeds_limit(a.loan_type, a.loan_amount)
        limit_remark == IF exceeded_limit
                        THEN <<"Requested amount exceeds maximum limit for loans of this type.">>
                        ELSE <<>>
        dti == debt_to_income(a.existing_debt, a.income)
        f_dti == dti_factor(dti)
        f_emp == employment_factor(a.employment)
        f_lti == loan_to_income_factor(a.loan_amount, a.income)
        f_age == age_factor(a.age)
        credit_score == 650 + f_dti.points + f_emp.points + f_lti.points + f_age.points
        final == final_decision(exceeded_limit, credit_score, dti)
        interest_rate == base_interest_rate(a.loan_type, credit_score)
        emi == pricing_emi(final.decision, a.loan_amount, interest_rate, tenure_years)
    IN  [raised |-> emi.raised,
         data |->
            [name |-> a.name, age |-> a.age, income |-> a.income,
             loan_amount |-> a.loan_amount, loan_type |-> a.loan_type,
             employment |-> a.employment, existing_debt |-> a.existing_debt,
             tenure_years |-> tenure_years.n,
             debt_to_income |-> RoundedDti(dti),
             credit_score |-> credit_score,
             decision |-> final.decision,
             interest_rate |-> interest_rate,
             emi |-> emi.value,
             remarks |-> limit_remark \o f_dti.remark \o f_emp.remark \o f_lti.remark
                            \o f_age.remark \o final.remark,
             max_allowed |-> IF a.loan_type \in DOMAIN LOAN_LIMITS
                             THEN LOAN_LIMITS[a.loan_type] ELSE -1]]

---------------------------------------------------------------------------
(* The record store: the CSV file, csv.DictReader and csv.DictWriter *)

NEW_HEADER ==
    <<"Name", "Age", "Income", "Loan_Amount", "Loan_Type", "Tenure_Years",
      "Employment", "Existing_Debt", "Debt_to_Income", "Credit_Score",
      "InterestRate", "EMI", "Loan_Status", "DateApplied", "Remarks", "Decision">>

\* the header the store had before Tenure_Years and EMI were added
LEGACY_HEADER == SelectSeq(NEW_HEADER, LAMBDA c : c \notin {"Tenure_Years", "EMI"})

\* no file at CSV_FILE
Absent == [exists |-> FALSE, lines |-> <<>>]

\* a file of zero bytes
ZeroBytes == [exists |-> TRUE, lines |-> <<>>]

\* writer.writeheader(): the line of the column names
HeaderLine(names) == [i \in DOMAIN names |-> Str(<<names[i]>>)]

\* header = next(reader): the names in the first line of a file that has one
fieldnames(f) == [i \in DOMAIN f.lines[1] |-> f.lines[1][i].s[1]]

HasCol(names, c) == \E i \in DOMAIN names : names[i] = c

\* one row of csv.DictReader: a field the line lacks is None
DictRow(names, cells) ==
    [c \in {names[i] : i \in DOMAIN names} |->
        LET i == CHOOSE k \in DOMAIN names : names[k] = c
        IN  IF i <= Len(cells) THEN cells[i] ELSE NoneVal]

\* list(csv.DictReader(f)): the first line gives the keys, blank lines are skipped
DictReader(f) ==
    IF f.lines = <<>> THEN <<>>
    ELSE LET names == fieldnames(f)
             data == SelectSeq(Tail(f.lines), LAMBDA l : l # <<>>)
         IN  [k \in DOMAIN data |-> DictRow(names, data[k])]

\* row.get(col, default)
Get(row, col, default) == IF col \in DOMAIN row THEN row[col] ELSE default

\* what csv.writer writes for a value: None becomes the empty string
WriteCell(v) == IF v.t = "none" THEN Str(<<>>) ELSE v

\* csv.DictWriter(f, fieldnames).writerow(d)
WriteRow(names, d) == [i \in DOMAIN names |-> WriteCell(d[names[i]])]

---------------------------------------------------------------------------
(* migrate_csv_if_needed *)

\* next(reader) raises StopIteration: the file has no line
file_is_empty(f) == f.lines = <<>>

\* "Tenure_Years" in header or "EMI" in header
already_migrated(header) == HasCol(header, "Tenure_Years") \/ HasCol(header, "EMI")

skip_migration_ignoring_markers(f) == ~f.exists \/ file_is_empty(f)

skip_migration_without_rows(f) ==
    ~f.exists \/ Len(f.lines) <= 1 \/ already_migrated(fieldnames(f))

\* the three early returns: no file, an empty file, a header already migrated
skip_migration(f) ==
    ~f.exists \/ file_is_empty(f) \/ already_migrated(fieldnames(f))

loan_status_no_fallback(row) == Get(row, "Loan_Status", Str(<<>>))

\* row.get("Loan_Status", row.get("Decision", ""))
loan_status_of(row) == Get(row, "Loan_Status", Get(row, "Decision", Str(<<>>)))

\* row.get("Decision", row.get("Loan_Status", ""))
decision_of(row) == Get(row, "Decision", Get(row, "Loan_Status", Str(<<>>)))

\* the body of the loop over the old rows: the upgraded row, or the exception
upgrade_row(row) ==
    LET amount_text == Or(Get(row, "Loan_Amount", NoneVal), Num(0))
        rate_text == Or(Get(row, "InterestRate", NoneVal), Num(0))
        parsed == IsNum(amount_text) /\ IsNum(rate_text)     \* no ValueError
        loan_amount == IF parsed THEN amount_text ELSE Num(0)
        rate == IF parsed THEN rate_text ELSE Num(0)
        tenure == Num(Centi(DEFAULT_TENURE_YEARS))
        emi == calculate_emi(loan_amount, rate, tenure)
    IN  [raised |-> emi.raised,
         value |->
            [Name |-> Get(row, "Name", Str(<<>>)),
             Age |-> Get(row, "Age", Str(<<>>)),
             Income |-> Get(row, "Income", Str(<<>>)),
             Loan_Amount |-> Get(row, "Loan_Amount", Str(<<>>)),
             Loan_Type |-> Get(row, "Loan_Type", Str(<<>>)),
             Tenure_Years |-> tenure,
             Employment |-> Get(row, "Employment", Str(<<>>)),
             Existing_Debt |-> Or(Get(row, "Existing_Debt", Str(<<>>)), Num(0)),
             Debt_to_Income |-> Or(Get(row, "Debt_to_Income", Str(<<>>)), Str(<<>>)),
             Credit_Score |-> Get(row, "Credit_Score", Str(<<>>)),
             InterestRate |-> Get(row, "InterestRate", Str(<<>>)),
             EMI |-> Num(emi.value),
             Loan_Status |-> loan_status_of(row),
             DateApplied |-> Get(row, "DateApplied", Str(<<>>)),
             Remarks |-> Get(row, "Remarks", Str(<<>>)),
             Decision |-> decision_of(row)]]

\* the file after the call, and the exception the call ended with; an exception
\* leaves the loop before the file is opened for writing
migrate_csv_if_needed(f) ==
    IF skip_migration(f) THEN [raised |-> "none", file |-> f]
    ELSE LET rows == DictReader(f)
             upgraded_rows == [k \in DOMAIN rows |-> upgrade_row(rows[k])]
             failing == {k \in DOMAIN rows : upgraded_rows[k].raised # "none"}
         IN  IF failing # {}
             THEN [raised |-> upgraded_rows[CHOOSE k \in failing :
                                   \A j \in failing : k <= j].raised,
                   file |-> f]
             ELSE [raised |-> "none",
                   file |-> [exists |-> TRUE,
                             lines |-> <<HeaderLine(NEW_HEADER)>> \o
                                 [k \in DOMAIN rows |->
                                     WriteRow(NEW_HEADER, upgraded_rows[k].value)]]]

---------------------------------------------------------------------------
(* read_all_applications *)

\* the file after the call, the rows returned, and the exception
read_all_applications(f) ==
    IF ~f.exists THEN [raised |-> "none", file |-> f, rows |-> <<>>]
    ELSE LET mig == migrate_csv_if_needed(f) IN
         IF mig.raised # "none"
         THEN [raised |-> mig.raised, file |-> mig.file, rows |-> <<>>]
         ELSE [raised |-> "none", file |-> mig.file, rows |-> DictReader(mig.file)]

---------------------------------------------------------------------------
(* submit *)

\* new_row: the dictionary submit() writes for a decision
new_row(d, now_str) ==
    [Name |-> Str(<<d.name>>),
     Age |-> Num(d.age),
     Income |-> Num(d.income),
     Loan_Amount |-> Num(d.loan_amount),
     Loan_Type |-> Str(<<d.loan_type>>),
     Tenure_Years |-> Num(d.tenure_years),
     Employment |-> Str(<<d.employment>>),
     Existing_Debt |-> Num(d.existing_debt),
     Debt_to_Income |-> Num(d.debt_to_income),
     Credit_Score |-> Num(d.credit_score),
     InterestRate |-> Num(d.interest_rate),
     EMI |-> Num(d.emi),
     Loan_Status |-> Str(<<d.decision>>),
     DateApplied |-> Str(<<now_str>>),
     Remarks |-> Str(d.remarks),
     Decision |-> Str(<<d.decision>>)]

append_row_truncating(f, write_header, row) ==
    [exists |-> TRUE,
     lines |-> (IF write_header THEN <<HeaderLine(NEW_HEADER)>> ELSE <<>>)
                  \o <<WriteRow(NEW_HEADER, row)>>]

\* open(CSV_FILE, "a"); writeheader() if write_header; writerow(new_row)
append_row(f, write_header, row) ==
    [exists |-> TRUE,
     lines |-> f.lines
                  \o (IF write_header THEN <<HeaderLine(NEW_HEADER)>> ELSE <<>>)
                  \o <<WriteRow(NEW_HEADER, row)>>]

write_header_always(f) == TRUE

\* write_header = not file_exists or os.path.getsize(CSV_FILE) == 0
write_header_of(f) == ~f.exists \/ f.lines = <<>>

\* the request's form: the numeric fields numeric text already read as numbers,
\* existing_debt and tenure_years the values of the form, possibly empty
form_arguments(frm) ==
    [name |-> frm.name, age |-> frm.age, income |-> frm.income,
     loan_amount |-> frm.loan_amount, loan_type |-> frm.loan_type,
     employment |-> frm.employment,
     existing_debt |-> Or(frm.existing_debt, Num(0)).n,
     tenure_years |-> Or(frm.tenure_years, Num(Centi(DEFAULT_TENURE_YEARS)))]

\* the file after the handler, the row it wrote, and the exception
submit(f, frm, now_str) ==
    LET ev == evaluate_application(form_arguments(frm))
        mig == migrate_csv_if_needed(f)
        row == new_row(ev.data, now_str)
    IN  IF ev.raised # "none" THEN [raised |-> ev.raised, file |-> f, row |-> row]
        ELSE IF mig.raised # "none" THEN [raised |-> mig.raised, file |-> mig.file, row |-> row]
        ELSE [raised |-> "none",
              file |-> append_row(mig.file, write_header_of(mig.file), row),
              row |-> row]

---------------------------------------------------------------------------
(* Bounds and inputs *)

\* most data rows the store grows to (submit is not taken beyond it)
MaxRows == 3

\* most data rows of a store that exists when the program starts
MaxLegacyRows == 2

SeqsUpTo(S, n) == UNION {[1..k -> S] : k \in 0..n}

\* datetime.now().strftime(...) at the k-th submission: time only moves forward
Clock ==
    <<"2024-01-01 10:00:00", "2024-01-02 10:00:00", "2024-01-03 10:00:00",
      "2024-01-04 10:00:00", "2024-01-05 10:00:00", "2024-01-06 10:00:00">>

LegacyDate == "2023-06-01 09:00:00"

\* approved: score 790, rate 6.8 %, tenure left empty
FormApproved ==
    [name |-> "Asha", age |-> 30, income |-> 100000, loan_amount |-> 400000,
     loan_type |-> "Personal", employment |-> "Salaried",
     existing_debt |-> Num(10000), tenure_years |-> Str(<<>>)]

\* rejected: above the Home limit; existing debt left empty, tenure 1 year
FormOverLimit ==
    [name |-> "Ravi", age |-> 30, income |-> 100000, loan_amount |-> 6000000,
     loan_type |-> "Home", employment |-> "Salaried",
     existing_debt |-> Str(<<>>), tenure_years |-> Num(100)]

\* rejected: unemployed, debt at 60 % of income
FormLowScore ==
    [name |-> "Meena", age |-> 65, income |-> 100000, loan_amount |-> 400000,
     loan_type |-> "Car", employment |-> "Unemployed",
     existing_debt |-> Num(60000), tenure_years |-> Str(<<>>)]

Forms == {FormApproved, FormOverLimit, FormLowScore}

\* the line an earlier release, without Tenure_Years and EMI, wrote for a form
LegacyLine(frm) ==
    WriteRow(LEGACY_HEADER,
             new_row(evaluate_application(form_arguments(frm)).data, LegacyDate))

StoresOf(header, lineset, n) ==
    {[exists |-> TRUE, lines |-> <<HeaderLine(header)>> \o ls] : ls \in SeqsUpTo(lineset, n)}

\* the stores the program can find when it starts: none, a zero-byte file, a
\* store in the current layout, a store an earlier release wrote
InitialStores ==
    {Absent, ZeroBytes}
        \cup StoresOf(NEW_HEADER, {}, 0)
        \cup StoresOf(LEGACY_HEADER, {LegacyLine(frm) : frm \in Forms}, MaxLegacyRows)

\* older legacy headers, which had only one of Loan_Status and Decision
OlderHeaders ==
    {SelectSeq(LEGACY_HEADER, LAMBDA c : c # "Decision"),
     SelectSeq(LEGACY_HEADER, LAMBDA c : c # "Loan_Status")}

BaseLegacyRow == new_row(evaluate_application(form_arguments(FormApproved)).data, LegacyDate)

\* row with the fields of edits, a set of <<column, value>>, replaced
Edited(row, edits) ==
    [c \in DOMAIN row |->
        IF \E e \in edits : e[1] = c THEN (CHOOSE e \in edits : e[1] = c)[2] ELSE row[c]]

\* legacy rows edited by hand: fields emptied, unparseable, degenerate
FieldEdits ==
    {{},
     {<<"Loan_Amount", Str(<<>>)>>, <<"Existing_Debt", Str(<<>>)>>},
     {<<"Loan_Amount", Str(<<"abc">>)>>, <<"Decision", Str(<<"Rejected">>)>>},
     {<<"InterestRate", Str(<<"n/a">>)>>},
     {<<"InterestRate", Num(-240000)>>},
     {<<"Loan_Status", Str(<<>>)>>},
     {<<"Decision", Str(<<>>)>>}}

OlderFieldEdits ==
    {{}, {<<"Loan_Status", Str(<<"Rejected">>)>>, <<"Decision", Str(<<"Rejected">>)>>}}

\* short rows: the line cut after this many fields
ShortLengths == {3, 11}

ArbitraryLines(header) ==
    {WriteRow(header, Edited(BaseLegacyRow, e)) : e \in FieldEdits}
        \cup {SubSeq(WriteRow(header, BaseLegacyRow), 1, k) : k \in ShortLengths}

OlderLines(header) ==
    {WriteRow(header, Edited(BaseLegacyRow, e)) : e \in OlderFieldEdits}
        \cup {SubSeq(WriteRow(header, BaseLegacyRow), 1, k) : k \in {11}}

\* the stores of InitialStores, and legacy stores with rows of any content
ArbitraryStores ==
    InitialStores
        \cup StoresOf(LEGACY_HEADER, ArbitraryLines(LEGACY_HEADER), MaxLegacyRows)
        \cup UNION {StoresOf(h, OlderLines(h), MaxLegacyRows) : h \in OlderHeaders}

\* arguments of evaluate_application
Applicants ==
    [name : {"Asha"},
     age : {20, 23, 30, 65},
     income : {0, 100000},
     loan_amount : {400000, 500000, 500001, 600000, 1100000},
     loan_type : {"Personal", "Home", "Gold"},
     employment : {"Salaried", "Self-employed", "Unemployed", "Student"},
     existing_debt : {10000, 25000, 45000, 45004, 60000},
     tenure_years : {Str(<<>>), Num(100), Num(0)}]

LoanTypes == {"Home", "Personal", "Car", "Education", "Business", "Gold"}

CreditScores ==
    {500 + 10 * k : k \in 0..35} \cup {599, 601, 679, 681, 729, 731, 779, 781}

---------------------------------------------------------------------------
(* Specifications *)

NoData == [decision |-> "none"]

PureIdle ==
    /\ applicant = [name |-> "none"]
    /\ decision_data = NoData
    /\ pc = "idle"
    /\ rate_args = [loan_type |-> "none", credit_score |-> 0]
    /\ rate_ret = 0

StoreIdle ==
    /\ store = Absent
    /\ rows_read = <<>>
    /\ raised = "none"
    /\ op = "init"
    /\ before = Absent
    /\ appended = <<>>

InitStore(stores) ==
    /\ store \in stores
    /\ rows_read = <<>>
    /\ raised = "none"
    /\ op = "init"
    /\ before = store
    /\ appended = <<>>
    /\ PureIdle

Init == InitStore(InitialStores)

InitLegacy == InitStore(ArbitraryStores)

DataRows(f) == IF f.lines = <<>> THEN <<>> ELSE Tail(f.lines)

\* POST /submit
Submit ==
    \E frm \in Forms :
        /\ Len(DataRows(store)) < MaxRows
        /\ LET r == submit(store, frm, Clock[Len(appended) + 1]) IN
            /\ store' = r.file
            /\ raised' = r.raised
            /\ appended' = IF r.raised = "none"
                           THEN Append(appended, WriteRow(NEW_HEADER, r.row))
                           ELSE appended
        /\ op' = "submit"
        /\ before' = store
        /\ UNCHANGED <<rows_read, applicant, decision_data, pc, rate_args, rate_ret>>

\* read_all_applications(), as the dashboard and the list pages call it
ReadAll ==
    /\ LET r == read_all_applications(store) IN
        /\ store' = r.file
        /\ raised' = r.raised
        /\ rows_read' = r.rows
    /\ op' = "read_all"
    /\ before' = store
    /\ UNCHANGED <<appended, applicant, decision_data, pc, rate_args, rate_ret>>

\* migrate_csv_if_needed() on its own
Migrate ==
    /\ LET r == migrate_csv_if_needed(store) IN
        /\ store' = r.file
        /\ raised' = r.raised
    /\ op' = "migrate"
    /\ before' = store
    /\ UNCHANGED <<rows_read, appended, applicant, decision_data, pc, rate_args, rate_ret>>

Next == Submit \/ ReadAll \/ Migrate

Spec == Init /\ [][Next]_vars

SpecLegacy == InitLegacy /\ [][Next]_vars

InitEngine ==
    /\ StoreIdle
    /\ applicant \in Applicants
    /\ decision_data = NoData
    /\ pc = "idle"
    /\ rate_args = [loan_type |-> "none", credit_score |-> 0]
    /\ rate_ret = 0

Evaluate ==
    /\ pc = "idle"
    /\ LET r == evaluate_application(applicant) IN
        /\ decision_data' = r.data
        /\ raised' = r.raised
    /\ pc' = "done"
    /\ UNCHANGED <<store, rows_read, op, before, appended, applicant, rate_args, rate_ret>>

NextEngine == Evaluate

SpecEngine == InitEngine /\ [][NextEngine]_vars

InitRate ==
    /\ StoreIdle
    /\ applicant = [name |-> "none"]
    /\ decision_data = NoData
    /\ pc = "idle"
    /\ rate_args \in [loan_type : LoanTypes, credit_score : CreditScores]
    /\ rate_ret = 0

Rate ==
    /\ pc = "idle"
    /\ rate_ret' = base_interest_rate(rate_args.loan_type, rate_args.credit_score)
    /\ pc' = "done"
    /\ UNCHANGED <<store, rows_read, raised, op, before, appended,
                   applicant, decision_data, rate_args>>

NextRate == Rate

SpecRate == InitRate /\ [][NextRate]_vars

---------------------------------------------------------------------------
(* Properties *)

Approved == Str(<<"Approved">>)

HasHeader(f) == f.exists /\ f.lines # <<>>

\* a store in the legacy layout: a header with neither marker column
IsLegacy(f) == HasHeader(f) /\ ~already_migrated(fieldnames(f))

\* a store in the current layout: the 16-column header, once, then 16-field rows
IsCurrent(f) ==
    /\ HasHeader(f)
    /\ f.lines[1] = HeaderLine(NEW_HEADER)
    /\ \A i \in 2..Len(f.lines) :
          Len(f.lines[i]) = Len(NEW_HEADER) /\ f.lines[i] # HeaderLine(NEW_HEADER)

\* C1: evaluate_application decides Approved exactly when the loan amount is
\* within the limit of its (known) category, the credit score is at least 700
\* and the debt-to-income percentage is at most 45; above the limit it is
\* Rejected whatever the rest.
C1_ApprovedIff ==
    pc = "done" =>
        LET a == applicant
            over_limit == a.loan_type \in DOMAIN LOAN_LIMITS
                            /\ a.loan_amount > LOAN_LIMITS[a.loan_type]
            dti_at_most_45 == a.income <= 0 \/ a.existing_debt * 100 <= 45 * a.income
        IN  /\ (decision_data.decision = "Approved") <=>
                  (~over_limit /\ decision_data.credit_score >= 700 /\ dti_at_most_45)
            /\ decision_data.decision \in {"Approved", "Rejected"}
            /\ over_limit => decision_data.decision = "Rejected"

\* both boundaries at once: score exactly 700, debt exactly 45 % of income
C1_Witness ==
    /\ pc = "done"
    /\ decision_data.decision = "Approved"
    /\ decision_data.credit_score = 700
    /\ applicant.income > 0
    /\ applicant.existing_debt * 100 = 45 * applicant.income

C3_EmiOnlyIfApproved ==
    HasHeader(store) =>
        \A k \in DOMAIN DictReader(store) :
            LET row == DictReader(store)[k] IN
            ("EMI" \in DOMAIN row /\ IsNum(row["EMI"]) /\ row["EMI"].n # 0) =>
                (row["Decision"] = Approved /\ row["Loan_Status"] = Approved)

\* C4: migration is idempotent: after migrate_csv_if_needed has run, running it
\* again leaves the store as it is, and on a store whose header has a marker
\* column it changes nothing.
C4_MigrationIdempotent ==
    /\ LET once == migrate_csv_if_needed(store).file
       IN  migrate_csv_if_needed(once).file = once
    /\ op = "migrate" => migrate_csv_if_needed(store).file = store
    /\ (op = "migrate" /\ HasHeader(before) /\ already_migrated(fieldnames(before)))
          => store = before

\* migration has rewritten a legacy store with rows
C4_Witness ==
    /\ op = "migrate"
    /\ IsLegacy(before)
    /\ Len(before.lines) > 2
    /\ IsCurrent(store)
    /\ store # before

\* C5: migrating a legacy store of k data rows gives a store with the current
\* header and exactly k data rows, whatever the rows contain.
C5_MigrationPreservesRowCount ==
    (op = "migrate" /\ IsLegacy(before)) =>
        /\ store.lines[1] = HeaderLine(NEW_HEADER)
        /\ Len(DataRows(store)) = Len(DataRows(before))

\* what holds of the row count: it is preserved by every migration that does
\* not end with an exception
MigrationPreservesRowCountUnlessRaised ==
    (op = "migrate" /\ IsLegacy(before) /\ raised = "none") =>
        /\ store.lines[1] = HeaderLine(NEW_HEADER)
        /\ Len(DataRows(store)) = Len(DataRows(before))

\* C6: migration leaves an empty store untouched: a zero-byte file, or a file
\* with a header row only, whichever layout the header has.
C6_EmptyStoreUntouched ==
    (op = "migrate" /\ before.exists /\ Len(before.lines) <= 1) => store = before

\* C6, amended: migration leaves a zero-byte file and a file holding only the
\* current header untouched; a file holding only a legacy header is rewritten to
\* hold only the current header.
C6_EmptyStoreAmended ==
    (op = "migrate" /\ before.exists /\ Len(before.lines) <= 1) =>
        /\ before.lines = <<>> => store = before
        /\ (HasHeader(before) /\ already_migrated(fieldnames(before))) => store = before
        /\ IsLegacy(before) => store = [exists |-> TRUE, lines |-> <<HeaderLine(NEW_HEADER)>>]

C6_Witness ==
    /\ op = "migrate"
    /\ before = [exists |-> TRUE, lines |-> <<HeaderLine(LEGACY_HEADER)>>]
    /\ store = [exists |-> TRUE, lines |-> <<HeaderLine(NEW_HEADER)>>]

C8_CurrentLayout ==
    /\ (op = "submit" /\ raised = "none") => IsCurrent(store)
    /\ (op = "submit" /\ raised = "none" /\ ~HasHeader(before)) => Len(store.lines) = 2
    /\ (op = "read_all" /\ IsLegacy(before)) =>
          (IsCurrent(store) /\ Len(rows_read) = Len(DataRows(before)))
    /\ (op = "read_all" /\ ~before.exists) => (rows_read = <<>> /\ store = Absent)

\* a second submit after the one that created a zero-byte store's header
C8_Witness ==
    /\ op = "submit"
    /\ Len(appended) = 2
    /\ Len(store.lines) = 3
    /\ IsCurrent(store)
    /\ before.lines[1] = HeaderLine(NEW_HEADER)

\* C9: base_interest_rate is at least 5.0: the category's base rate (10.0 for an
\* unknown category) plus the one adjustment of the ladder, floored at 5.0.
C9_RateFloor ==
    pc = "done" =>
        LET t == rate_args.loan_type
            s == rate_args.credit_score
            base == CASE t = "Home" -> 520 [] t = "Personal" -> 750 [] t = "Car" -> 700
                      [] t = "Education" -> 480 [] t = "Business" -> 850 [] OTHER -> 1000
            adjustment == CASE s >= 780 -> -70
                            [] s >= 730 /\ s <= 779 -> -40
                            [] s >= 680 /\ s <= 729 -> -10
                            [] s < 600 -> 100
                            [] OTHER -> 0
        IN  /\ rate_ret >= 500
            /\ rate_ret = Max(base + adjustment, 500)

\* the floor at work: Education at 4.8 less 0.7
C9_Witness ==
    /\ pc = "done"
    /\ rate_args.loan_type = "Education"
    /\ rate_args.credit_score >= 780
    /\ rate_ret = 500

MigratedRows == op = "migrate" /\ IsLegacy(before) /\ raised = "none"

\* absent from the row, None or empty
FieldMissing(row, c) == c \notin DOMAIN row \/ ~Truthy(row[c])

\* C10: migration reconciles Loan_Status and Decision: a row whose Loan_Status is
\* missing and Decision present gets that Decision as Loan_Status, and the other
\* way round; when both are present each is carried forward unchanged.
C10_CrossFieldsReconciled ==
    MigratedRows =>
        \A k \in DOMAIN DictReader(before) :
            LET old == DictReader(before)[k]
                new == DictReader(store)[k]
            IN  /\ (FieldMissing(old, "Loan_Status") /\ ~FieldMissing(old, "Decision"))
                      => new["Loan_Status"] = old["Decision"]
                /\ (FieldMissing(old, "Decision") /\ ~FieldMissing(old, "Loan_Status"))
                      => new["Decision"] = old["Loan_Status"]
                /\ (~FieldMissing(old, "Loan_Status") /\ ~FieldMissing(old, "Decision"))
                      => (new["Loan_Status"] = old["Loan_Status"]
                            /\ new["Decision"] = old["Decision"])

\* C10, amended: the reconciliation is by column: when the legacy header has no
\* Loan_Status column each migrated row gets its Decision field as Loan_Status,
\* and the other way round; a column the header has is carried forward as the row
\* has it, an empty field or one a short row lacks staying empty.
C10_ReconciledByColumn ==
    MigratedRows =>
        \A k \in DOMAIN DictReader(before) :
            LET old == DictReader(before)[k]
                new == DictReader(store)[k]
            IN  /\ ("Loan_Status" \notin DOMAIN old /\ "Decision" \in DOMAIN old)
                      => new["Loan_Status"] = WriteCell(old["Decision"])
                /\ ("Decision" \notin DOMAIN old /\ "Loan_Status" \in DOMAIN old)
                      => new["Decision"] = WriteCell(old["Loan_Status"])
                /\ "Loan_Status" \in DOMAIN old
                      => new["Loan_Status"] = WriteCell(old["Loan_Status"])
                /\ "Decision" \in DOMAIN old
                      => new["Decision"] = WriteCell(old["Decision"])

\* a header without Loan_Status: the migrated row takes it from Decision
C10_Witness ==
    /\ MigratedRows
    /\ ~HasCol(fieldnames(before), "Loan_Status")
    /\ \E k \in DOMAIN DictReader(before) :
          /\ Truthy(DictReader(before)[k]["Decision"])
          /\ DictReader(store)[k]["Loan_Status"] = DictReader(before)[k]["Decision"]

===========================================================================
